---- MODULE Spec2Model ----
(***************************************************************************)
(* Phonolo.js: the Inventory / Segment engine of src/phonolo.js.           *)
(*                                                                         *)
(* The JavaScript heap is modelled by three sequences of objects, an       *)
(* object's identity being its position in its sequence:                   *)
(*   maps  feature specifications ({feat: val, ...} objects)               *)
(*   segs  Segment objects  [symbol, features (a reference into maps),     *)
(*         name]                                                           *)
(*   invs  Inventory objects [segments, features, featureSystem]           *)
(* added counts the calls of addSegment made from outside a constructor,  *)
(* ret is the outcome of the last call: what it returned or that it threw. *)
(* bundles holds the FeatureBundle objects that have an element on the     *)
(* page, drag the state of the mousedown handler whose document listeners  *)
(* are registered (NoDrag when there is none).                             *)
(*                                                                         *)
(* A JavaScript object used as a dictionary keeps its own string keys in   *)
(* insertion order (none of the keys used here is an array index), so a    *)
(* dictionary is a record [keys, at]: the keys in insertion order and the  *)
(* value stored at each key.  A feature specification is only ever read    *)
(* key by key into disjoint slots, so it is a plain function.              *)
(***************************************************************************)
EXTENDS Integers, Sequences, FiniteSets, TLC

VARIABLES maps, segs, invs, added, ret, bundles, drag

vars == <<maps, segs, invs, added, ret, bundles, drag>>

----------------------------------------------------------------------------
(* Bounds of the model *)

\* Most entries of the table handed to fromObject
MaxTable == 2
\* Most symbols in the list handed to fromFeatureSystem
MaxList == 2
\* Most Inventory objects on the heap
MaxInvs == 2
\* Most calls of addSegment from outside a constructor
MaxAdded == 1
\* Most entries of a constraint object handed to getSegments
MaxConstraints == 2

----------------------------------------------------------------------------
(* Input alphabets *)

Feats == {"voice", "nasal"}

Vals == {"+", "-"}

\* The values a table gives a feature: voice is two-valued, nasal is
\* privative (marked "+" or left out)
ValsOf(feat) == IF feat = "voice" THEN {"+", "-"} ELSE {"+"}

\* Code points: "e" followed by the combining acute "'" composes to "E"
\* (e-acute) under NFC.
RawSymbols == {<<"p">>, <<"t">>, <<"E">>, <<"e", "'">>}

\* The feature specifications of the tables
FeatureSpecs ==
    {fm \in UNION {[D -> Vals] : D \in SUBSET Feats} :
        \A f \in DOMAIN fm : fm[f] \in ValsOf(f)}

Range(s) == {s[i] : i \in 1..Len(s)}

\* The sequences over S of length at most n
SeqsUpTo(S, n) == UNION {[1..k -> S] : k \in 0..n}

\* A sequence with no element twice
Injective(s) == \A i, j \in 1..Len(s) : s[i] = s[j] => i = j

----------------------------------------------------------------------------
(* JavaScript dictionaries *)

ObjEmpty == [keys |-> <<>>, at |-> [k \in {} |-> 0]]

ObjHas(o, k) == k \in DOMAIN o.at

\* o[k] = v: a new key goes last in the enumeration order
ObjSet(o, k, v) ==
    IF k \in DOMAIN o.at
    THEN [o EXCEPT !.at[k] = v]
    ELSE [keys |-> Append(o.keys, k), at |-> (k :> v) @@ o.at]

\* Object.values(o)
ObjValues(o) == [i \in 1..Len(o.keys) |-> o.at[o.keys[i]]]

----------------------------------------------------------------------------
(* String.prototype.normalize() (NFC) on sequences of code points *)

RECURSIVE normalize(_)
normalize(s) ==
    IF Len(s) < 2 THEN s
    ELSE IF s[1] = "e" /\ s[2] = "'"
         THEN <<"E">> \o normalize(SubSeq(s, 3, Len(s)))
         ELSE <<s[1]>> \o normalize(Tail(s))

----------------------------------------------------------------------------
(* Segment *)

NoName == "undefined"

\* Segment with the symbol stored as its name too
SegmentNamed(symbol, features) ==
    [symbol |-> normalize(symbol), features |-> features, name |-> symbol]

\* new Segment(symbol, features): features is a reference to the
\* specification passed in, which the Segment does not copy
Segment(symbol, features) ==
    [symbol |-> normalize(symbol), features |-> features, name |-> NoName]

----------------------------------------------------------------------------
(* Inventory *)

\* The value of the field featureSystem before it is assigned
Undefined == 0

\* No drag in progress: no mousedown handler has its document listeners
\* registered
NoDrag ==
    [source |-> Undefined, feature |-> "none", moved |-> FALSE,
     currTarget |-> Undefined, inside |-> TRUE, over |-> Undefined]

\* No property besides the declared fields
NoRest == [n \in {} |-> "opaque"]

\* The field initialisers of class Inventory; assigned holds the properties
\* that Object.assign copies onto the object
InventoryFields ==
    [segments |-> ObjEmpty, features |-> [f \in {} |-> ObjEmpty],
     featureSystem |-> Undefined, assigned |-> NoRest]

\* indexFeature with the list assigned instead of pushed to
indexFeatureAssign(index, feat, val, seg) ==
    LET byVal == IF feat \in DOMAIN index THEN index[feat] ELSE ObjEmpty
    IN  ObjSet(byVal, val, <<seg>>)

\* The loop body of addSegment for one feature: the dictionary
\* this.features[feat] after the segment is pushed under its value
indexFeature(index, feat, val, seg) ==
    LET byVal == IF feat \in DOMAIN index THEN index[feat] ELSE ObjEmpty
        withList == IF ObjHas(byVal, val) THEN byVal
                    ELSE ObjSet(byVal, val, <<>>)
    IN  ObjSet(withList, val, Append(withList.at[val], seg))

\* inv.addSegment(seg), seg a Segment whose specification reads fm
addSegment(inv, seg, symbol, fm) ==
    [inv EXCEPT
        !.segments = ObjSet(inv.segments, symbol, seg),
        !.features = [f \in DOMAIN inv.features \cup DOMAIN fm |->
                        IF f \in DOMAIN fm
                        THEN indexFeature(inv.features, f, fm[f], seg)
                        ELSE inv.features[f]]]

\* The constructor's loop over segments, on the heap (ms, ss)
RECURSIVE addAll(_, _, _, _)
addAll(inv, segments, ms, ss) ==
    IF segments = <<>> THEN inv
    ELSE LET seg == Head(segments)
         IN  addAll(addSegment(inv, seg, ss[seg].symbol, ms[ss[seg].features]),
                    Tail(segments), ms, ss)

\* Inventory with the featureSystem argument dropped
InventoryNoSystem(segments, featureSystem, ms, ss) ==
    addAll(InventoryFields, segments, ms, ss)

\* new Inventory(segments, featureSystem)
Inventory(segments, featureSystem, ms, ss) ==
    LET filled == addAll(InventoryFields, segments, ms, ss)
    IN  IF featureSystem # Undefined
        THEN [filled EXCEPT !.featureSystem = featureSystem]
        ELSE filled

----------------------------------------------------------------------------
(* Outcome of a call *)

Outcome(op, inv, arg, thrown, value) ==
    [op |-> op, inv |-> inv, arg |-> arg, thrown |-> thrown, value |-> value]

----------------------------------------------------------------------------

Init ==
    /\ maps = <<>>
    /\ segs = <<>>
    /\ invs = <<>>
    /\ added = 0
    /\ ret = Outcome("none", 0, 0, FALSE, 0)
    /\ bundles = <<>>
    /\ drag = NoDrag

\* The tables fromObject is called with: obj.features, a dictionary from
\* symbol to feature specification (distinct keys, in enumeration order)
Tables ==
    {t \in SeqsUpTo(RawSymbols \X FeatureSpecs, MaxTable) :
        Injective([i \in 1..Len(t) |-> t[i][1]])}

\* The entry of obj.features for one symbol: a feature specification, or
\* a value that is none (null or undefined, valid = FALSE)
Entry(spec) == [valid |-> TRUE, spec |-> spec]

NullEntry == [valid |-> FALSE, spec |-> [f \in {} |-> "+"]]

\* The names of the auxiliary fields of obj (places, manners and the
\* classify callbacks), each holding a value the Inventory never reads
MetaNames == {"places", "manners"}

Rests == UNION {[D -> {"opaque"}] : D \in SUBSET MetaNames}

\* The objects fromObject is called with: a table that may hold null
\* entries, and auxiliary fields
Objects ==
    [features :
        {t \in SeqsUpTo(RawSymbols \X
                          ({Entry(spec) : spec \in FeatureSpecs}
                              \cup {NullEntry}), MaxTable) :
            Injective([i \in 1..Len(t) |-> t[i][1]])},
     rest : Rests]

\* The specification object a new Segment refers to: the one passed in,
\* or for a falsy argument the Segment's own fresh {}
givenFeatures(entry) ==
    IF entry.valid THEN entry.spec ELSE [f \in {} |-> "+"]

\* Inventory.fromObject(obj): one Segment per key of obj.features, each
\* referring to the specification object found in the table; the other
\* properties of obj are copied onto the Inventory.  A run builds one
\* feature system, first; the other inventories derive from it.
fromObjectOf(obj) ==
    /\ invs = <<>>
    /\ UNCHANGED <<added, bundles, drag>>
    /\ LET t == obj.features
           ms == maps \o [i \in 1..Len(t) |-> givenFeatures(t[i][2])]
           ss == segs \o [i \in 1..Len(t) |->
                            Segment(t[i][1], Len(maps) + i)]
           segments == [i \in 1..Len(t) |-> Len(segs) + i]
           self == Len(invs) + 1
           inventory == Inventory(segments, Undefined, ms, ss)
       IN  /\ maps' = ms
           /\ segs' = ss
           /\ invs' = Append(invs, [inventory EXCEPT
                                        !.featureSystem = self,
                                        !.assigned = obj.rest])
           /\ ret' = Outcome("fromObject", self, obj, FALSE, self)

\* Inventory.fromObject({features: t}) for a table of feature
\* specifications
fromObject(t) ==
    fromObjectOf([features |-> [i \in 1..Len(t) |->
                                   <<t[i][1], Entry(t[i][2])>>],
                  rest |-> NoRest])

\* The symbol lists fromFeatureSystem is called with: any strings, in the
\* parent or not, repeated or not
SymbolLists == SeqsUpTo(RawSymbols, MaxList)

\* distinctiveMap with a listed segment that lacks the feature counted as
\* one more value
distinctiveMapAbsent(featureSystem, segments, distinctive) ==
    LET listed == IF distinctive THEN 1..Len(segments) ELSE {}
        spec(i) == maps[segs[featureSystem.segments.at[segments[i]]].features]
    IN  [feat \in UNION {DOMAIN spec(i) : i \in listed} |->
            {IF feat \in DOMAIN spec(i) THEN spec(i)[feat] ELSE "undefined" :
                i \in listed}]

\* The Map built over every segment of the feature system instead of the
\* listed ones
distinctiveMapAll(featureSystem, segments, distinctive) ==
    LET stored == IF distinctive THEN Range(ObjValues(featureSystem.segments))
                  ELSE {}
    IN  [feat \in UNION {DOMAIN maps[segs[s].features] : s \in stored} |->
            {maps[segs[s].features][feat] :
                s \in {o \in stored : feat \in DOMAIN maps[segs[o].features]}}]

\* The Map built by the first loop of fromFeatureSystem: for each feature
\* seen on a listed segment, the Set of values seen for it
distinctiveMap(featureSystem, segments, distinctive) ==
    LET listed == IF distinctive THEN 1..Len(segments) ELSE {}
        spec(i) == maps[segs[featureSystem.segments.at[segments[i]]].features]
    IN  [feat \in UNION {DOMAIN spec(i) : i \in listed} |->
            {spec(i)[feat] : i \in {j \in listed : feat \in DOMAIN spec(j)}}]

\* keptFeatures with the test on distinctive left out
keptFeaturesAlways(spec, map, distinctive) ==
    LET kept == {feat \in DOMAIN spec :
                    feat \in DOMAIN map /\ Cardinality(map[feat]) > 1}
    IN  [feat \in kept |-> spec[feat]]

\* The object `features` built for one listed segment by the second loop
keptFeatures(spec, map, distinctive) ==
    LET kept == {feat \in DOMAIN spec :
                    ~distinctive \/ Cardinality(map[feat]) > 1}
    IN  [feat \in kept |-> spec[feat]]

\* fromFeatureSystem handing each new Segment the feature map of the
\* parent's Segment when nothing is to be dropped
fromFeatureSystemShared(parent, segments, distinctive) ==
    /\ Len(invs) < MaxInvs
    /\ UNCHANGED <<added, bundles, drag>>
    /\ \A i \in 1..Len(segments) : ObjHas(invs[parent].segments, segments[i])
    /\ ~distinctive
    /\ LET featureSystem == invs[parent]
           ss == segs \o [i \in 1..Len(segments) |->
                           Segment(segments[i],
                                   segs[featureSystem.segments.at[segments[i]]]
                                       .features)]
           phonemes == [i \in 1..Len(segments) |-> Len(segs) + i]
       IN  /\ maps' = maps
           /\ segs' = ss
           /\ invs' = Append(invs, Inventory(phonemes, parent, maps, ss))
           /\ ret' = Outcome("fromFeatureSystem", parent,
                             [segments |-> segments,
                              distinctive |-> distinctive],
                             FALSE, Len(invs) + 1)

\* Inventory.fromFeatureSystem(featureSystem, segments, distinctive).
\* featureSystem.segments[segment] is undefined for a string that is no key
\* of the parent, and reading .features of it throws a TypeError.
fromFeatureSystem(parent, segments, distinctive) ==
    /\ Len(invs) < MaxInvs
    /\ UNCHANGED <<added, bundles, drag>>
    /\ LET featureSystem == invs[parent]
           arg == [segments |-> segments, distinctive |-> distinctive]
       IN  IF \E i \in 1..Len(segments) :
                  ~ObjHas(featureSystem.segments, segments[i])
           THEN /\ ret' = Outcome("fromFeatureSystem", parent, arg, TRUE, 0)
                /\ UNCHANGED <<maps, segs, invs>>
           ELSE LET map == distinctiveMap(featureSystem, segments, distinctive)
                    spec(i) ==
                        maps[segs[featureSystem.segments.at[segments[i]]].features]
                    ms == maps \o [i \in 1..Len(segments) |->
                                    keptFeatures(spec(i), map, distinctive)]
                    ss == segs \o [i \in 1..Len(segments) |->
                                    Segment(segments[i], Len(maps) + i)]
                    phonemes == [i \in 1..Len(segments) |-> Len(segs) + i]
                    new == Len(invs) + 1
                IN  /\ maps' = ms
                    /\ segs' = ss
                    /\ invs' = Append(invs, Inventory(phonemes, parent, ms, ss))
                    /\ ret' = Outcome("fromFeatureSystem", parent, arg, FALSE, new)

\* inventory.addSegment(new Segment(symbol, features))
AddNewSegment(i, symbol, features) ==
    /\ added < MaxAdded
    /\ added' = added + 1
    /\ UNCHANGED <<bundles, drag>>
    /\ LET ms == Append(maps, features)
           ss == Append(segs, Segment(symbol, Len(ms)))
           seg == Len(ss)
       IN  /\ maps' = ms
           /\ segs' = ss
           /\ invs' = [invs EXCEPT ![i] =
                         addSegment(@, seg, ss[seg].symbol, ms[ss[seg].features])]
           /\ ret' = Outcome("addSegment", i, seg, FALSE, 0)

\* inventory.addSegment(segment) with a Segment object that already exists,
\* in this Inventory or in another one
AddSameSegment(i, seg) ==
    /\ added < MaxAdded
    /\ added' = added + 1
    /\ invs' = [invs EXCEPT ![i] =
                  addSegment(@, seg, segs[seg].symbol, maps[segs[seg].features])]
    /\ ret' = Outcome("addSegment", i, seg, FALSE, 0)
    /\ UNCHANGED <<maps, segs, bundles, drag>>

----------------------------------------------------------------------------
(* Queries *)

\* What a query hands back: a value, or a thrown TypeError
Result(thrown, value) == [thrown |-> thrown, value |-> value]

\* The constraint objects getSegments is called with: {feat: val, ...} in
\* enumeration order, or nothing at all (given = FALSE)
Constraints ==
    {c \in SeqsUpTo(Feats \X Vals, MaxConstraints) :
        Injective([k \in 1..Len(c) |-> c[k][1]])}

Given(c) == [given |-> TRUE, entries |-> c]

Omitted == [given |-> FALSE, entries |-> <<>>]

\* filterBy reading the list without new Set(...): a value that is no key
\* of this.features[feat] throws
filterByStrict(inv, prev, feat, val) ==
    IF prev # <<>> /\ (feat \notin DOMAIN inv.features
                        \/ ~ObjHas(inv.features[feat], val))
    THEN Result(TRUE, <<>>)
    ELSE LET set == IF feat \in DOMAIN inv.features
                       /\ ObjHas(inv.features[feat], val)
                    THEN Range(inv.features[feat].at[val])
                    ELSE {}
         IN  Result(FALSE, SelectSeq(prev, LAMBDA x : x \in set))

\* One step of the reduce in getSegments:
\*   prev.filter(x => new Set(this.features[feat][val]).has(x))
\* The callback runs once per element of prev; this.features[feat] is
\* undefined for a feature no segment was added with, and reading [val] of
\* it throws.  new Set(undefined) is the empty Set.
filterBy(inv, prev, feat, val) ==
    IF prev # <<>> /\ feat \notin DOMAIN inv.features
    THEN Result(TRUE, <<>>)
    ELSE LET set == IF feat \in DOMAIN inv.features
                       /\ ObjHas(inv.features[feat], val)
                    THEN Range(inv.features[feat].at[val])
                    ELSE {}
         IN  Result(FALSE, SelectSeq(prev, LAMBDA x : x \in set))

\* reduce stopping after the first entry
reduceFirst(inv, entries, prev) ==
    IF entries = <<>> THEN Result(FALSE, prev)
    ELSE filterBy(inv, prev, Head(entries)[1], Head(entries)[2])

\* Object.entries(...).reduce(..., prev)
RECURSIVE reduce(_, _, _)
reduce(inv, entries, prev) ==
    IF entries = <<>> THEN Result(FALSE, prev)
    ELSE LET step == filterBy(inv, prev, Head(entries)[1], Head(entries)[2])
         IN  IF step.thrown THEN step
             ELSE reduce(inv, Tail(entries), step.value)

\* getSegments without the ?? {}: Object.entries(undefined) throws
getSegmentsNoDefault(inv, features) ==
    IF features.given
    THEN reduce(inv, features.entries, ObjValues(inv.segments))
    ELSE Result(TRUE, <<>>)

\* inv.getSegments(features): features ?? {} reads an omitted argument as {}
getSegments(inv, features) ==
    reduce(inv, IF features.given THEN features.entries ELSE <<>>,
           ObjValues(inv.segments))

\* inv.getValues(feature): Object.keys(undefined) throws
getValues(inv, feature) ==
    IF feature \in DOMAIN inv.features
    THEN Result(FALSE, inv.features[feature].keys)
    ELSE Result(TRUE, <<>>)

GetSegments(i, features) ==
    /\ LET r == getSegments(invs[i], features)
       IN  ret' = Outcome("getSegments", i, features, r.thrown, r.value)
    /\ UNCHANGED <<maps, segs, invs, added, bundles, drag>>

GetValues(i, feature) ==
    /\ LET r == getValues(invs[i], feature)
       IN  ret' = Outcome("getValues", i, feature, r.thrown, r.value)
    /\ UNCHANGED <<maps, segs, invs, added, bundles, drag>>

----------------------------------------------------------------------------
(* Inventory.parse: the tokenizer *)

\* The longest text given to parse
MaxText == 3

\* The whitespace the pattern \s matches
Whitespace == {" "}

\* The characters of the texts: letters, the combining acute accent ("'"),
\* the composed letter ("E"), the hyphen and whitespace
Chars == {"t", "e", "E", "'", "-"} \cup Whitespace

Texts == SeqsUpTo(Chars, MaxText)

\* The longest text parsed between queries
MaxReadText == 2

ReadTexts == SeqsUpTo(Chars, MaxReadText)

\* The UTF-16 code unit of each character, which the default sort compares
codeUnit(c) ==
    CASE c = " " -> 32
      [] c = "-" -> 45
      [] c = "e" -> 101
      [] c = "p" -> 112
      [] c = "t" -> 116
      [] c = "E" -> 233
      [] c = "'" -> 769

\* a < b as Array.prototype.sort compares strings without a comparator
RECURSIVE precedes(_, _)
precedes(a, b) ==
    IF a = <<>> THEN b # <<>>
    ELSE IF b = <<>> THEN FALSE
    ELSE IF a[1] = b[1] THEN precedes(Tail(a), Tail(b))
    ELSE codeUnit(a[1]) < codeUnit(b[1])

\* keys left in the order they were inserted
sortNone(keys) == keys

\* keys.sort() for distinct strings
sort(keys) ==
    [i \in 1..Len(keys) |->
        CHOOSE k \in Range(keys) :
            Cardinality({l \in Range(keys) : precedes(l, k)}) = i - 1]

\* array.reverse()
reverse(s) == [i \in 1..Len(s) |-> s[Len(s) + 1 - i]]

\* The characters the escape pattern prefixes with a backslash, and the
\* ones a pattern with the u flag lets a backslash stand before
Escaped ==
    {"-", "/", "\\", "^", "$", "*", "+", "?", ".", "(", ")", "|", "[", "]",
     "{", "}"}

SyntaxCharacters ==
    {"^", "$", "\\", ".", "*", "+", "?", "(", ")", "[", "]", "{", "}", "|"}

\* new RegExp accepts the escaped symbol
compiles(symbol) ==
    \A c \in Range(symbol) :
        c \in Escaped => c \in SyntaxCharacters \cup {"/"}

\* The candidates in sorted order, not reversed
alternativesSorted(inv) ==
    LET keys == sort(inv.segments.keys)
    IN  IF keys = <<>> THEN << <<>> >>
        ELSE [i \in 1..Len(keys) |-> normalize(keys[i])]

\* The alternatives of the first group of segmentRegex, in the order they
\* are tried; joining no key gives the empty pattern
alternatives(inv) ==
    LET keys == reverse(sort(inv.segments.keys))
    IN  IF keys = <<>> THEN << <<>> >>
        ELSE [i \in 1..Len(keys) |-> normalize(keys[i])]

\* symbol occurs in text right after the first lastIndex characters
isPrefixAt(symbol, text, lastIndex) ==
    /\ lastIndex + Len(symbol) <= Len(text)
    /\ \A i \in 1..Len(symbol) : text[lastIndex + i] = symbol[i]

\* The alternative the pattern matches with: the first that matches, since
\* (\s*) matches after any of them; 0 if none does
firstMatch(alts, text, lastIndex) ==
    LET matching == {k \in 1..Len(alts) : isPrefixAt(alts[k], text, lastIndex)}
    IN  IF matching = {} THEN 0
        ELSE CHOOSE k \in matching : \A l \in matching : k <= l

\* No whitespace consumed
skipNone(text, at) == at

\* At most one whitespace character consumed
skipOne(text, at) ==
    IF at < Len(text) /\ text[at + 1] \in Whitespace THEN at + 1 ELSE at

\* (\s*): the end of the run of whitespace that starts after the first at
\* characters
RECURSIVE skip(_, _)
skip(text, at) ==
    IF at < Len(text) /\ text[at + 1] \in Whitespace
    THEN skip(text, at + 1)
    ELSE at

\* What a call of parse comes to: the list it returned, an exception, or
\* a loop that never ends; starts holds lastIndex at each match, lastIndex
\* its value when the loop was left
Parsed(status, segments, starts, lastIndex) ==
    [status |-> status, segments |-> segments, starts |-> starts,
     lastIndex |-> lastIndex]

\* The while loop of parse.  A match that consumes nothing leaves lastIndex
\* where it was, so the same match is pushed again without end.
RECURSIVE tokenize(_, _, _, _, _, _)
tokenize(inv, alts, text, lastIndex, segments, starts) ==
    IF lastIndex >= Len(text)
    THEN Parsed("returned", segments, starts, lastIndex)
    ELSE LET k == firstMatch(alts, text, lastIndex)
         IN  IF k = 0 THEN Parsed("thrown", segments, starts, lastIndex)
             ELSE LET end == skip(text, lastIndex + Len(alts[k]))
                      segment == IF ObjHas(inv.segments, alts[k])
                                 THEN inv.segments.at[alts[k]]
                                 ELSE Undefined
                  IN  IF end = lastIndex
                      THEN Parsed("hangs", Append(segments, segment),
                                  Append(starts, lastIndex), lastIndex)
                      ELSE tokenize(inv, alts, text, end,
                                    Append(segments, segment),
                                    Append(starts, lastIndex))

\* inv.parse(text): new RegExp throws on a symbol it cannot compile
parse(inv, text) ==
    IF \E k \in Range(inv.segments.keys) : ~compiles(normalize(k))
    THEN Parsed("thrown", <<>>, <<>>, 0)
    ELSE tokenize(inv, alternatives(inv), text, 0, <<>>, <<>>)

\* A call of parse that leaves the keys of inv.segments sorted
ParseSorting(i, text) ==
    /\ LET r == parse(invs[i], text)
       IN  ret' = Outcome("parse", i, text, r.status = "thrown", r)
    /\ invs' = [invs EXCEPT ![i].segments.keys =
                                reverse(sort(invs[i].segments.keys))]
    /\ UNCHANGED <<maps, segs, added, bundles, drag>>

Parse(i, text) ==
    /\ LET r == parse(invs[i], text)
       IN  ret' = Outcome("parse", i, text, r.status = "thrown", r)
    /\ UNCHANGED <<maps, segs, invs, added, bundles, drag>>

\* The symbols of the tables given to the tokenizer: a letter and the
\* geminate written by doubling it, a letter spelled with a combining
\* accent, the empty symbol and a hyphen
ParseSymbols ==
    {<<>>, <<"t">>, <<"t", "t">>, <<"e", "'">>, <<"-">>}

\* Tables of segments without features
ParseTables ==
    {t \in SeqsUpTo(ParseSymbols \X {[f \in {} |-> "+"]}, MaxTable) :
        Injective([i \in 1..Len(t) |-> t[i][1]])}

----------------------------------------------------------------------------
(* Specifications *)

\* Construction and mutation of inventories
Next ==
    \/ \E t \in Tables : fromObject(t)
    \/ \E p \in 1..Len(invs), l \in SymbolLists, d \in BOOLEAN :
          fromFeatureSystem(p, l, d)
    \/ \E i \in 1..Len(invs), s \in RawSymbols, f \in FeatureSpecs :
          AddNewSegment(i, s, f)
    \/ \E i \in 1..Len(invs), s \in 1..Len(segs) : AddSameSegment(i, s)

Spec == Init /\ [][Next]_vars

\* Queries on a feature system, between the calls that change it
NextQuery ==
    \/ \E t \in Tables : fromObject(t)
    \/ \E i \in 1..Len(invs), s \in RawSymbols, f \in FeatureSpecs :
          AddNewSegment(i, s, f)
    \/ \E i \in 1..Len(invs), s \in 1..Len(segs) : AddSameSegment(i, s)
    \/ \E i \in 1..Len(invs), c \in Constraints : GetSegments(i, Given(c))
    \/ \E i \in 1..Len(invs) : GetSegments(i, Omitted)
    \/ \E i \in 1..Len(invs), f \in Feats : GetValues(i, f)

SpecQuery == Init /\ [][NextQuery]_vars

\* Construction of a feature system from any object
NextObject ==
    \E obj \in Objects : fromObjectOf(obj)

SpecObject == Init /\ [][NextObject]_vars

\* Tokenizing with a feature system
NextParse ==
    \/ \E t \in ParseTables : fromObject(t)
    \/ \E i \in 1..Len(invs), text \in Texts : Parse(i, text)

SpecParse == Init /\ [][NextParse]_vars

\* The read operations on a feature system, in any order
NextRead ==
    \/ \E t \in Tables : fromObject(t)
    \/ \E i \in 1..Len(invs), c \in Constraints : GetSegments(i, Given(c))
    \/ \E i \in 1..Len(invs) : GetSegments(i, Omitted)
    \/ \E i \in 1..Len(invs), f \in Feats : GetValues(i, f)
    \/ \E i \in 1..Len(invs), text \in ReadTexts : Parse(i, text)

SpecRead == Init /\ [][NextRead]_vars

----------------------------------------------------------------------------
(* Properties *)

\* The Segment objects stored in inv.segments
Live(inv) == Range(ObjValues(inv.segments))

\* The feature specification a Segment object refers to
SpecOf(seg) == maps[segs[seg].features]

\* The Segment objects listed in inv.features[feat][val]
Listed(inv, feat, val) ==
    IF feat \in DOMAIN inv.features /\ ObjHas(inv.features[feat], val)
    THEN Range(inv.features[feat].at[val])
    ELSE {}

\* The stored segments that have every feature = value pair of entries
Matching(inv, entries) ==
    {s \in Live(inv) :
        \A k \in 1..Len(entries) :
            /\ entries[k][1] \in DOMAIN SpecOf(s)
            /\ SpecOf(s)[entries[k][1]] = entries[k][2]}

\* C1 Index completeness: in every Inventory, after its construction and
\* after any calls of addSegment, every stored segment is listed under
\* each of its feature = value pairs and under no other value of that
\* feature.
C1_IndexComplete ==
    \A i \in 1..Len(invs) :
        \A s \in Live(invs[i]) :
            \A f \in DOMAIN SpecOf(s) :
                /\ s \in Listed(invs[i], f, SpecOf(s)[f])
                /\ \A v \in DOMAIN invs[i].features[f].at :
                      v # SpecOf(s)[f] => s \notin Listed(invs[i], f, v)

\* C1 witness: addSegment has just run on an Inventory that stores two
\* segments and lists one feature under two values.
C1_Witness ==
    /\ ret.op = "addSegment"
    /\ Cardinality(Live(invs[ret.inv])) >= 2
    /\ \E f \in DOMAIN invs[ret.inv].features :
          Len(invs[ret.inv].features[f].keys) >= 2

\* C2 Index soundness: every segment listed in index[feature][value] is the
\* segment stored in `segments` under its symbol, and its feature map has
\* feature = value.
C2_IndexSound ==
    \A i \in 1..Len(invs) :
        \A f \in DOMAIN invs[i].features :
            \A v \in DOMAIN invs[i].features[f].at :
                \A s \in Listed(invs[i], f, v) :
                    /\ ObjHas(invs[i].segments, segs[s].symbol)
                    /\ invs[i].segments.at[segs[s].symbol] = s
                    /\ f \in DOMAIN SpecOf(s)
                    /\ SpecOf(s)[f] = v

\* C3 For every Inventory built by fromObject (its own feature system),
\* getSegments with {} or with no argument returns exactly the stored
\* segments, and every stored segment is returned by getSegments for each
\* single feature = value pair it has.
C3_FromObjectQueries ==
    \A i \in 1..Len(invs) :
        invs[i].featureSystem = i =>
            /\ \A c \in {Omitted, Given(<<>>)} :
                  /\ ~getSegments(invs[i], c).thrown
                  /\ Range(getSegments(invs[i], c).value) = Live(invs[i])
            /\ \A s \in Live(invs[i]) :
                  \A f \in DOMAIN SpecOf(s) :
                      LET r == getSegments(invs[i],
                                           Given(<<<<f, SpecOf(s)[f]>>>>))
                      IN  ~r.thrown /\ s \in Range(r.value)

\* C3 witness: getSegments with one constraint has returned some but not
\* all segments of an Inventory built by fromObject, and the omitted
\* argument has been used too.
C3_Witness ==
    /\ ret.op = "getSegments"
    /\ invs[ret.inv].featureSystem = ret.inv
    /\ ret.arg.given /\ Len(ret.arg.entries) = 1
    /\ ~ret.thrown
    /\ ret.value # <<>>
    /\ Range(ret.value) # Live(invs[ret.inv])

\* C3 witness for the omitted argument
C3_WitnessOmitted ==
    /\ ret.op = "getSegments"
    /\ ~ret.arg.given
    /\ Len(ret.value) >= 2

\* C4 getSegments with N constraints equals, as a set, the intersection of
\* the N single-constraint results (all stored segments when N = 0),
\* whenever the N single queries return.
C4_Intersection ==
    \A i \in 1..Len(invs) :
        \A c \in Constraints :
            LET single(k) == getSegments(invs[i], Given(<<c[k]>>))
                all == getSegments(invs[i], Given(c))
            IN  (\A k \in 1..Len(c) : ~single(k).thrown) =>
                    /\ ~all.thrown
                    /\ Range(all.value) =
                         {s \in Live(invs[i]) :
                            \A k \in 1..Len(c) : s \in Range(single(k).value)}

\* C4 witness: getSegments with two constraints has returned a non-empty
\* result that is smaller than each of the two single-constraint results.
C4_Witness ==
    /\ ret.op = "getSegments"
    /\ ret.arg.given /\ Len(ret.arg.entries) = 2
    /\ ~ret.thrown
    /\ ret.value # <<>>
    /\ \A k \in 1..2 :
          LET r == getSegments(invs[ret.inv], Given(<<ret.arg.entries[k]>>))
          IN  ~r.thrown /\ Range(r.value) # Range(ret.value)

C5_WitnessDisjoint ==
    /\ ret.op = "getSegments"
    /\ ret.arg.given /\ Len(ret.arg.entries) = 2
    /\ \A k \in 1..2 : Matching(invs[ret.inv], <<ret.arg.entries[k]>>) # {}
    /\ ~ret.thrown /\ ret.value = <<>>

\* C6 A query naming a feature unknown to the Inventory does not raise:
\* getSegments({unknownFeature: v}) on a non-empty Inventory and
\* getValues(unknownFeature) both complete without throwing.
C6_UnknownFeatureNoRaise ==
    /\ (/\ ret.op = "getSegments"
        /\ Live(invs[ret.inv]) # {}
        /\ ret.arg.given /\ Len(ret.arg.entries) = 1
        /\ ret.arg.entries[1][1] \notin DOMAIN invs[ret.inv].features)
       => ~ret.thrown
    /\ (/\ ret.op = "getValues"
        /\ ret.arg \notin DOMAIN invs[ret.inv].features)
       => ~ret.thrown

\* C7 getValues(feature) for a known feature returns exactly the distinct
\* values v such that some stored segment has feature = v: none missing,
\* none without a stored segment, none repeated.
C7_GetValuesExact ==
    (ret.op = "getValues" /\ ret.arg \in DOMAIN invs[ret.inv].features) =>
        /\ ~ret.thrown
        /\ Range(ret.value) =
             {v \in Vals : Matching(invs[ret.inv], <<<<ret.arg, v>>>>) # {}}
        /\ Injective(ret.value)

\* The parent's Segment object named by the k-th symbol of the list that
\* the last call of fromFeatureSystem was given
ParentSegment(k) == invs[ret.inv].segments.at[ret.arg.segments[k]]

\* The Segment object the last call of fromFeatureSystem created for the
\* k-th symbol of its list
DerivedSegment(k) == Len(segs) - Len(ret.arg.segments) + k

\* The values the feature takes across the listed segments that have it
ValuesAcross(feat) ==
    {SpecOf(ParentSegment(j))[feat] :
        j \in {k \in 1..Len(ret.arg.segments) :
                  feat \in DOMAIN SpecOf(ParentSegment(k))}}

\* C8 fromFeatureSystem(parent, list, distinctive = true) gives each
\* selected segment exactly those of its parent features that take more
\* than one value across the listed segments that have the feature, each
\* with its parent value.
C8_DistinctiveOnly ==
    (ret.op = "fromFeatureSystem" /\ ~ret.thrown /\ ret.arg.distinctive) =>
        \A k \in 1..Len(ret.arg.segments) :
            LET parent == SpecOf(ParentSegment(k))
                derived == SpecOf(DerivedSegment(k))
            IN  /\ invs[ret.value].segments.at[ret.arg.segments[k]] \in
                     {DerivedSegment(j) :
                        j \in {n \in 1..Len(ret.arg.segments) :
                                  ret.arg.segments[n] = ret.arg.segments[k]}}
                /\ DOMAIN derived =
                     {f \in DOMAIN parent : Cardinality(ValuesAcross(f)) > 1}
                /\ \A f \in DOMAIN derived : derived[f] = parent[f]

\* C8 witness: a distinctive derivation from two listed segments where one
\* feature is kept on both, and a feature with a single value across the
\* segments that have it is dropped from a segment although another listed
\* segment lacks it.
C8_Witness ==
    /\ ret.op = "fromFeatureSystem" /\ ~ret.thrown /\ ret.arg.distinctive
    /\ Len(ret.arg.segments) = 2
    /\ \E f, g \in Feats :
          /\ \A k \in 1..2 : f \in DOMAIN SpecOf(DerivedSegment(k))
          /\ g \in DOMAIN SpecOf(ParentSegment(1))
          /\ g \notin DOMAIN SpecOf(ParentSegment(2))
          /\ g \notin DOMAIN SpecOf(DerivedSegment(1))

\* C9 fromFeatureSystem(parent, list, distinctive = false) gives every
\* selected segment a feature map equal to its full feature map in the
\* parent.
C9_FullSpecKept ==
    (ret.op = "fromFeatureSystem" /\ ~ret.thrown /\ ~ret.arg.distinctive) =>
        \A k \in 1..Len(ret.arg.segments) :
            /\ invs[ret.value].segments.at[ret.arg.segments[k]] \in
                 {DerivedSegment(j) :
                    j \in {n \in 1..Len(ret.arg.segments) :
                              ret.arg.segments[n] = ret.arg.segments[k]}}
            /\ SpecOf(DerivedSegment(k)) = SpecOf(ParentSegment(k))

\* C9 witness: a derivation without minimization of two segments that agree
\* on a feature, which both keep.
C9_Witness ==
    /\ ret.op = "fromFeatureSystem" /\ ~ret.thrown /\ ~ret.arg.distinctive
    /\ Len(ret.arg.segments) = 2
    /\ ret.arg.segments[1] # ret.arg.segments[2]
    /\ \E f \in Feats :
          /\ \A k \in 1..2 : f \in DOMAIN SpecOf(DerivedSegment(k))
          /\ SpecOf(DerivedSegment(1))[f] = SpecOf(DerivedSegment(2))[f]

\* C10 For every list of symbols present in the parent, fromFeatureSystem
\* returns an Inventory whose segment symbols are exactly the symbols of
\* the list and whose featureSystem is the parent.
C10_ExactlyListed ==
    (/\ ret.op = "fromFeatureSystem"
     /\ \A k \in 1..Len(ret.arg.segments) :
           ObjHas(invs[ret.inv].segments, ret.arg.segments[k])) =>
        /\ ~ret.thrown
        /\ DOMAIN invs[ret.value].segments.at = Range(ret.arg.segments)
        /\ Range(invs[ret.value].segments.keys) = Range(ret.arg.segments)
        /\ \A sym \in Range(ret.arg.segments) :
              segs[invs[ret.value].segments.at[sym]].symbol = sym
        /\ invs[ret.value].featureSystem = ret.inv

\* C10 witness: a derivation that selects one of two parent segments, from
\* a list naming it twice.
C10_Witness ==
    /\ ret.op = "fromFeatureSystem" /\ ~ret.thrown
    /\ Len(ret.arg.segments) = 2
    /\ ret.arg.segments[1] = ret.arg.segments[2]
    /\ Cardinality(Live(invs[ret.inv])) = 2
    /\ Cardinality(Live(invs[ret.value])) = 1

----------------------------------------------------------------------------
(* Construction from an object *)

\* The table fromObject was called with, and the Inventory it returned
GivenTable == ret.arg.features

Returned == invs[ret.value]

\* The last entry of the table whose symbol has the normal form of entry k's
LastOf(k) ==
    CHOOSE j \in 1..Len(GivenTable) :
        /\ normalize(GivenTable[j][1]) = normalize(GivenTable[k][1])
        /\ \A l \in 1..Len(GivenTable) :
              normalize(GivenTable[l][1]) = normalize(GivenTable[k][1])
                  => l <= j

\* C11 as stated: fromObject returns, for every input object, a root
\* Inventory whose featureSystem is itself and which holds exactly one
\* nameless Segment per entry of the table.
C11_OnePerEntry ==
    ret.op = "fromObject" =>
        /\ ~ret.thrown
        /\ Returned.featureSystem = ret.value
        /\ Cardinality(Live(Returned)) = Len(GivenTable)
        /\ \A seg \in Live(Returned) : segs[seg].name = NoName

\* C11 amended: fromObject returns, for every input object, a root Inventory
\* whose featureSystem is itself, which carries the object's other fields
\* unchanged, and which holds exactly one nameless Segment per distinct
\* normalized symbol of the table: the one made for the last entry with that
\* symbol (the Segment made for entry k is the k-th object created).
C11_OnePerSymbol ==
    ret.op = "fromObject" =>
        /\ ~ret.thrown
        /\ Returned.featureSystem = ret.value
        /\ Returned.assigned = ret.arg.rest
        /\ Range(Returned.segments.keys) =
               {normalize(GivenTable[k][1]) : k \in 1..Len(GivenTable)}
        /\ Cardinality(Live(Returned)) =
               Cardinality({normalize(GivenTable[k][1]) :
                               k \in 1..Len(GivenTable)})
        /\ \A k \in 1..Len(GivenTable) :
              LET symbol == normalize(GivenTable[k][1])
                  seg == Returned.segments.at[symbol]
              IN  /\ seg = LastOf(k)
                  /\ segs[seg].symbol = symbol
                  /\ segs[seg].name = NoName
                  /\ SpecOf(seg) = givenFeatures(GivenTable[LastOf(k)][2])

\* A table with two spellings of one symbol and with auxiliary fields has
\* been turned into an Inventory
C11_Witness ==
    /\ ret.op = "fromObject"
    /\ Len(GivenTable) = 2
    /\ LastOf(1) = 2
    /\ DOMAIN ret.arg.rest = MetaNames
    /\ Cardinality(Live(Returned)) = 1

\* C19: constructing an Inventory from a table in which some symbol has no
\* feature map raises, and no Inventory holding that entry is returned.
C19_InvalidMapRaises ==
    (/\ ret.op = "fromObject"
     /\ \E k \in 1..Len(GivenTable) : ~GivenTable[k][2].valid)
        => /\ ret.thrown
           /\ invs = <<>>

----------------------------------------------------------------------------
(* The tokenizer *)

\* The most whitespace put between two symbols or added after one
MaxPad == 2

\* The Inventory parse was called on, its symbols, and what the call came to
ParseInv == invs[ret.inv]

ParseKeys == Range(ParseInv.segments.keys)

ParseText == ret.arg

Tokens == 1..Len(ret.value.starts)

\* The symbol the n-th match consumed
TokenSymbol(n) ==
    IF ret.value.segments[n] = Undefined THEN <<>>
    ELSE segs[ret.value.segments[n]].symbol

\* The symbols of the Inventory that occur in text at position at
PrefixesAt(at) == {k \in ParseKeys : isPrefixAt(k, ParseText, at)}

\* The place of x in the sequence s
PositionIn(s, x) == CHOOSE i \in 1..Len(s) : s[i] = x

\* n whitespace characters
Spaces(n) == [i \in 1..n |-> " "]

\* The symbols of q written one after the other with pads[i] whitespace
\* characters between the i-th and the next
RECURSIVE Spell(_, _)
Spell(q, pads) ==
    IF q = <<>> THEN <<>>
    ELSE IF Len(q) = 1 THEN q[1]
    ELSE q[1] \o Spaces(pads[1]) \o Spell(Tail(q), Tail(pads))

\* The sequences of symbols of the Inventory with the whitespace between
\* them, from least to MaxPad characters each time
Spellings(least) ==
    UNION {[symbols : {q}, pads : [1..(Len(q) - 1) -> least..MaxPad]] :
              q \in {s \in SeqsUpTo(ParseKeys, MaxText) : s # <<>>}}
        \cup {[symbols |-> <<>>, pads |-> <<>>]}

\* The symbols of the segments parse returned
ReturnedSymbols ==
    [n \in 1..Len(ret.value.segments) |-> TokenSymbol(n)]

\* C12: at every position where parse takes a token, the segment it emits
\* is the one stored under the longest symbol of the Inventory that occurs
\* at that position; and when the text is a symbol of which another symbol
\* is a proper prefix, parse returns the single segment of that symbol.
C12_MaximalMunch ==
    ret.op = "parse" =>
        /\ \A n \in Tokens :
              /\ ret.value.segments[n] # Undefined
              /\ TokenSymbol(n) \in PrefixesAt(ret.value.starts[n])
              /\ ret.value.segments[n] =
                     ParseInv.segments.at[TokenSymbol(n)]
              /\ \A k \in PrefixesAt(ret.value.starts[n]) :
                    Len(k) <= Len(TokenSymbol(n))
        /\ (/\ ParseText \in ParseKeys
            /\ \E a \in ParseKeys :
                  a # ParseText /\ isPrefixAt(a, ParseText, 0))
              => /\ ret.value.status = "returned"
                 /\ ret.value.segments = <<ParseInv.segments.at[ParseText]>>

\* C13: in the order parse tries the symbols in, a symbol of which another
\* symbol is a proper prefix comes before that prefix.
C13_LongerFirst ==
    \A i \in 1..Len(invs) :
        \A a, b \in Range(invs[i].segments.keys) :
            (a # b /\ isPrefixAt(a, b, 0))
                => PositionIn(alternatives(invs[i]), b)
                       < PositionIn(alternatives(invs[i]), a)

\* parse has run on an Inventory that stores a symbol after a proper,
\* non-empty prefix of it, and returned the segment of the longer one
C13_Witness ==
    /\ ret.op = "parse"
    /\ ParseInv.segments.keys = << <<"t">>, <<"t", "t">> >>
    /\ ParseText = <<"t", "t">>
    /\ ret.value.status = "returned"
    /\ ReturnedSymbols = << <<"t", "t">> >>

Reached == Range(ret.value.starts) \cup {ret.value.lastIndex}

\* C15: if at a position parse reaches inside the text no symbol of the
\* Inventory matches, parse raises and returns no list.
C15_RaisesOnNoMatch ==
    (/\ ret.op = "parse"
     /\ \E at \in Reached :
           /\ at < Len(ParseText)
           /\ \A k \in ParseKeys : ~isPrefixAt(k, ParseText, at))
        => /\ ret.thrown
           /\ ret.value.status = "thrown"

\* The text with pad whitespace characters added after the n-th match
Padded(n, pad) ==
    LET at == ret.value.starts[n] + Len(TokenSymbol(n))
    IN  SubSeq(ParseText, 1, at) \o Spaces(pad)
            \o SubSeq(ParseText, at + 1, Len(ParseText))

Orders ==
    LET stored == ObjValues(ParseInv.segments)
    IN  {[i \in 1..Len(stored) |-> stored[p[i]]] :
            p \in {f \in [1..Len(stored) -> 1..Len(stored)] : Injective(f)}}

\* C17: an Inventory built from the same segments inserted in any other
\* order gives the same outcome for the same text.
C17_InsertionOrder ==
    ret.op = "parse" =>
        \A order \in Orders :
            parse(Inventory(order, Undefined, maps, segs), ParseText)
                = ret.value

\* parse has returned the longer of two symbols that were inserted
\* shorter first, where the reverse of the insertion order would try the
\* shorter first
C17_Witness ==
    /\ ret.op = "parse"
    /\ ParseInv.segments.keys = << <<"t", "t">>, <<"t">> >>
    /\ ParseText = <<"t", "t">>
    /\ ReturnedSymbols = << <<"t", "t">> >>
    /\ Cardinality(Orders) = 2

\* C18: every stored symbol is in normal form, and parse comes to the
\* same outcome on a text as on the normal form of the text.
C18_NormalizationInsensitive ==
    ret.op = "parse" =>
        /\ \A seg \in Live(ParseInv) :
              segs[seg].symbol = normalize(segs[seg].symbol)
        /\ LET r == parse(ParseInv, normalize(ParseText))
           IN  /\ r.status = ret.value.status
               /\ r.segments = ret.value.segments

----------------------------------------------------------------------------
(* The read path *)

Reads == {"getSegments", "getValues", "parse"}

\* The feature system as fromObject built it from the segments of its
\* table, before any read
AsBuilt ==
    [Inventory([k \in 1..Len(segs) |-> k], Undefined, maps, segs)
        EXCEPT !.featureSystem = 1]

\* The last read returned what it returns on the feature system as built
ReadAlone ==
    /\ ret.op = "getSegments" =>
          /\ ret.thrown = getSegments(AsBuilt, ret.arg).thrown
          /\ ret.value = getSegments(AsBuilt, ret.arg).value
    /\ ret.op = "getValues" =>
          /\ ret.thrown = getValues(AsBuilt, ret.arg).thrown
          /\ ret.value = getValues(AsBuilt, ret.arg).value
    /\ ret.op = "parse" => ret.value = parse(AsBuilt, ret.arg)

\* C20: getSegments, getValues and parse leave segments, the index and
\* featureSystem (and the objects they refer to) as they were, and a read
\* made after any other reads returns what it returns when made alone.
C20_ReadPathPure ==
    /\ [](ret.op \in Reads => ReadAlone)
    /\ [][ret'.op \in Reads => UNCHANGED <<maps, segs, invs>>]_vars

\* parse has returned two segments of a feature system that has an index
\* and stores its symbols in an order other than the sorted one
C20_Witness ==
    /\ ret.op = "parse"
    /\ ret.value.status = "returned"
    /\ Len(ret.value.segments) = 2
    /\ invs[1].segments.keys = << <<"t">>, <<"E">> >>
    /\ DOMAIN invs[1].features = Feats

----------------------------------------------------------------------------
(* The index lists *)

\* C21: after any sequence of addSegment calls, adding the same segment
\* twice included, no list features[feat][val] of any Inventory holds the
\* same Segment more than once.
C21_NoDuplicates ==
    \A i \in 1..Len(invs) :
        \A feat \in DOMAIN invs[i].features :
            \A val \in DOMAIN invs[i].features[feat].at :
                Injective(invs[i].features[feat].at[val])

----------------------------------------------------------------------------
(* Termination and coverage of the tokenizer *)

\* C24: parse terminates for every Inventory and every text, the empty
\* Inventory and an Inventory with the empty symbol included: it returns a
\* list or raises.
C24_ParseTerminates ==
    ret.op = "parse" => ret.value.status \in {"returned", "thrown"}

\* The text without its whitespace
RECURSIVE Stripped(_)
Stripped(text) ==
    IF text = <<>> THEN <<>>
    ELSE IF Head(text) \in Whitespace THEN Stripped(Tail(text))
    ELSE <<Head(text)>> \o Stripped(Tail(text))

\* The symbols of a sequence written one after the other
RECURSIVE Joined(_)
Joined(symbols) ==
    IF symbols = <<>> THEN <<>>
    ELSE Head(symbols) \o Joined(Tail(symbols))

\* C25: whenever parse returns, every element of the list is a Segment
\* stored in the Inventory's segments, never undefined, and the returned
\* symbols written one after the other are the text without its whitespace.
C25_ResultCoversText ==
    (ret.op = "parse" /\ ret.value.status = "returned") =>
        /\ \A n \in 1..Len(ret.value.segments) :
              /\ ret.value.segments[n] # Undefined
              /\ ret.value.segments[n] \in Live(ParseInv)
        /\ Joined(ReturnedSymbols) = Stripped(ParseText)

----------------------------------------------------------------------------
(* Order of the constraints *)

\* The constraint mappings with the entries of c in any key order
Reordered(c) ==
    {[k \in 1..Len(c) |-> c[p[k]]] :
        p \in {f \in [1..Len(c) -> 1..Len(c)] : Injective(f)}}

\* C26: getSegments called with the same (feature, value) pairs in another
\* key order comes to the same outcome: both calls raise, or both return
\* the same set of segments.
C26_KeyOrderIndependent ==
    (ret.op = "getSegments" /\ ret.arg.given) =>
        \A c \in Reordered(ret.arg.entries) :
            LET other == getSegments(invs[ret.inv], Given(c))
            IN  /\ other.thrown = ret.thrown
                /\ ~ret.thrown => Range(other.value) = Range(ret.value)

----------------------------------------------------------------------------
(* Derivation with minimization *)

\* The symbols fromFeatureSystem was called with
Listing == ret.arg.segments

\* C27: after fromFeatureSystem(parent, list, distinctive = true), any two
\* selected segments whose feature maps differ in the parent have feature
\* maps that differ in the derived Inventory.
C27_StillDistinguished ==
    (ret.op = "fromFeatureSystem" /\ ~ret.thrown /\ ret.arg.distinctive) =>
        \A j, k \in 1..Len(Listing) :
            SpecOf(ParentSegment(j)) # SpecOf(ParentSegment(k))
                => SpecOf(DerivedSegment(j)) # SpecOf(DerivedSegment(k))

\* The feature map a derivation from inv with the same list gives the
\* k-th symbol
Rederived(inv, k, distinctive) ==
    keptFeatures(SpecOf(inv.segments.at[Listing[k]]),
                 distinctiveMap(inv, Listing, distinctive), distinctive)

\* C28: deriving again with the same list and distinctive = true from
\* fromFeatureSystem(parent, list, true) gives the same symbols with the
\* same feature maps, and deriving with distinctive = true from
\* fromFeatureSystem(parent, list, false) gives what
\* fromFeatureSystem(parent, list, true) gives.
C28_MinimizationIdempotent ==
    (ret.op = "fromFeatureSystem" /\ ~ret.thrown) =>
        \A k \in 1..Len(Listing) :
            /\ ObjHas(invs[ret.value].segments, Listing[k])
            /\ normalize(Listing[k]) = segs[DerivedSegment(k)].symbol
            /\ ret.arg.distinctive =>
                  Rederived(invs[ret.value], k, TRUE)
                      = SpecOf(DerivedSegment(k))
            /\ ~ret.arg.distinctive =>
                  Rederived(invs[ret.value], k, TRUE)
                      = Rederived(invs[ret.inv], k, TRUE)

\* A minimizing derivation of two segments kept one feature and dropped
\* another
C28_Witness ==
    /\ ret.op = "fromFeatureSystem" /\ ~ret.thrown /\ ret.arg.distinctive
    /\ Len(Listing) = 2
    /\ \E f, g \in Feats :
          /\ f \in DOMAIN SpecOf(DerivedSegment(1))
          /\ g \in DOMAIN SpecOf(ParentSegment(1))
          /\ g \notin DOMAIN SpecOf(DerivedSegment(1))

\* A derivation without minimization of a selection that minimization
\* would change
C28_WitnessCopied ==
    /\ ret.op = "fromFeatureSystem" /\ ~ret.thrown /\ ~ret.arg.distinctive
    /\ \E k \in 1..Len(Listing) :
          Rederived(invs[ret.inv], k, TRUE) # SpecOf(ParentSegment(k))

\* C29: a call of fromFeatureSystem, with either value of distinctive,
\* leaves every Inventory, Segment and feature map that existed before as
\* it was, and gives every Segment it creates a feature map created in the
\* same call, which no earlier Segment refers to.
C29_ParentUntouched ==
    [][ret'.op = "fromFeatureSystem" =>
          /\ SubSeq(invs', 1, Len(invs)) = invs
          /\ SubSeq(segs', 1, Len(segs)) = segs
          /\ SubSeq(maps', 1, Len(maps)) = maps
          /\ \A s \in (Len(segs) + 1)..Len(segs') :
                /\ segs'[s].features > Len(maps)
                /\ \A o \in 1..Len(segs') :
                      segs'[o].features = segs'[s].features => o = s]_vars

\* A derivation without minimization has copied the non-empty feature map
\* of a parent Segment
C29_Witness ==
    /\ ret.op = "fromFeatureSystem" /\ ~ret.thrown /\ ~ret.arg.distinctive
    /\ Len(Listing) >= 1
    /\ SpecOf(ParentSegment(1)) # [f \in {} |-> "+"]
    /\ SpecOf(DerivedSegment(1)) = SpecOf(ParentSegment(1))
    /\ segs[DerivedSegment(1)].features # segs[ParentSegment(1)].features


----------------------------------------------------------------------------
(* FeatureBundle: the handlers createElement registers *)

\* Most FeatureBundle elements on the page
MaxBundles == 2

\* The classify callbacks of obj, which Segment.createPopup calls
Classifiers ==
    [n \in {"classifyConsonant", "classifyVowel"} |-> "opaque"]

\* The tables of the page's feature system: p is voiced, t is voiced,
\* voiceless or unspecified, and no segment is specified for nasal
BundleTables ==
    {t \in Tables :
        /\ Len(t) >= 1
        /\ t[1] = <<(<<"p">>), [f \in {"voice"} |-> "+"]>>
        /\ Len(t) = 2 =>
              /\ t[2][1] = <<"t">>
              /\ "nasal" \notin DOMAIN t[2][2]}

\* The objects the page's feature system is built from, with and without
\* the classify callbacks
BundleObjects ==
    {[features |-> [i \in 1..Len(t) |-> <<t[i][1], Entry(t[i][2])>>],
      rest |-> r] : t \in BundleTables, r \in {NoRest, Classifiers}}

\* The object literals the page constructs its feature bundles from
BundleSpecs == {spec \in FeatureSpecs : Cardinality(DOMAIN spec) <= 1}

\* The value a read of a missing key gives
Missing == "undefined"

\* this.features[feature]
valueOf(spec, feature) ==
    IF feature \in DOMAIN spec THEN spec[feature] ELSE Missing

\* vals.findIndex(x => x === value): the first position that holds value,
\* counted from 0, or -1
findIndex(vals, value) ==
    IF \E i \in 1..Len(vals) : vals[i] = value
    THEN (CHOOSE i \in 1..Len(vals) :
              /\ vals[i] = value
              /\ \A j \in 1..(i - 1) : vals[j] # value) - 1
    ELSE -1

\* The next position, stopping at the last one
nextIndexClamped(idx, length) ==
    IF idx + 1 < length THEN idx + 1 ELSE idx

\* idx = (idx + 1) % vals.length
nextIndex(idx, length) == (idx + 1) % length

\* The click listener of a value cell: the feature specification of the
\* bundle after the click, or thrown with the specification as it was
toggle(inv, spec, feature) ==
    LET vals == getValues(inv, feature)
    IN  IF vals.thrown THEN Result(TRUE, spec)
        ELSE LET idx == findIndex(vals.value, valueOf(spec, feature))
             IN  IF idx = -1 THEN Result(TRUE, spec)
                 ELSE Result(FALSE,
                        (feature :>
                           vals.value[nextIndex(idx, Len(vals.value)) + 1])
                          @@ spec)

\* The phonolo-featuredrop listener: this.features[feature] = value
featuredrop(spec, feature, value) == (feature :> value) @@ spec

\* The feature deleted whether or not the bundle is editable
dragOutAlways(spec, feature, editable) ==
    [f \in DOMAIN spec \ {feature} |-> spec[f]]

\* The end of the mouseup listener: if (this.editable) delete
\* this.features[feature]
dragOut(spec, feature, editable) ==
    IF editable THEN [f \in DOMAIN spec \ {feature} |-> spec[f]] ELSE spec

\* A FeatureBundle that has its element: features refers into maps, rows
\* are the features that have a row in the element's table
FeatureBundle(features, editable, inventory, rows) ==
    [features |-> features, editable |-> editable,
     inventory |-> inventory, rows |-> rows]

\* new FeatureBundle({...}, editable).createElement(inventory) of the page:
\* the bundle refers to the object literal it is given, one row per key
NewFeatureBundle(features, editable, inventory) ==
    /\ invs # <<>>
    /\ drag = NoDrag
    /\ Len(bundles) < MaxBundles
    /\ maps' = Append(maps, features)
    /\ bundles' = Append(bundles,
                     FeatureBundle(Len(maps) + 1, editable, inventory,
                                   DOMAIN features))
    /\ ret' = Outcome("createElement", inventory, features, FALSE,
                      Len(bundles) + 1)
    /\ UNCHANGED <<segs, invs, added, drag>>

\* A click on the element Segment.createElement(inventory) made, which is
\* interactive if the Segment has a feature: createPopup(inventory) calls
\* the classify callbacks of the feature system for a Segment without a
\* name (classified: classifyConsonant returned a classification), then
\* builds a bundle over the Segment's own feature specification
ClickSegment(i, seg, classified) ==
    /\ drag = NoDrag
    /\ Len(bundles) < MaxBundles
    /\ DOMAIN maps[segs[seg].features] # {}
    /\ LET fs == invs[i].featureSystem
           callable(name) ==
               fs = Undefined \/ name \in DOMAIN invs[fs].assigned
           thrown ==
               /\ segs[seg].name = NoName
               /\ \/ ~callable("classifyConsonant")
                  \/ ~classified /\ ~callable("classifyVowel")
       IN  IF thrown
           THEN /\ ret' = Outcome("createPopup", i, seg, TRUE, 0)
                /\ UNCHANGED bundles
           ELSE /\ bundles' = Append(bundles,
                                FeatureBundle(segs[seg].features, FALSE, i,
                                    DOMAIN maps[segs[seg].features]))
                /\ ret' = Outcome("createPopup", i, seg, FALSE,
                                  Len(bundles) + 1)
    /\ UNCHANGED <<maps, segs, invs, added, drag>>

\* A click on the value cell of a row.  The cell has a listener if an
\* inventory was given and the bundle is editable; the listener of the
\* row, which opens a popup, reads the bundle and the inventory only
ClickValue(b, feature) ==
    /\ drag = NoDrag
    /\ feature \in bundles[b].rows
    /\ LET bundle == bundles[b]
           arg == [bundle |-> b, feature |-> feature]
       IN  IF bundle.inventory # Undefined /\ bundle.editable
           THEN LET r == toggle(invs[bundle.inventory],
                                maps[bundle.features], feature)
                IN  /\ maps' = [maps EXCEPT ![bundle.features] = r.value]
                    /\ ret' = Outcome("click", bundle.inventory, arg,
                                      r.thrown, 0)
           ELSE /\ ret' = Outcome("click", bundle.inventory, arg, FALSE, 0)
                /\ UNCHANGED maps
    /\ UNCHANGED <<segs, invs, added, bundles, drag>>

\* mousedown on a row with the left button: currTarget = null, and the
\* mousemove and mouseup listeners are registered on the document
MouseDown(b, feature) ==
    /\ drag = NoDrag
    /\ feature \in bundles[b].rows
    /\ drag' = [NoDrag EXCEPT !.source = b, !.feature = feature, !.over = b]
    /\ ret' = Outcome("mousedown", Undefined,
                      [bundle |-> b, feature |-> feature], FALSE, 0)
    /\ UNCHANGED <<maps, segs, invs, added, bundles>>

\* mousemove during a drag, to a point inside the viewport and over the
\* bundle element `over` (Undefined: over none), or to a point outside the
\* viewport, where document.elementsFromPoint returns [] and the listener
\* returns before it looks for a target
MouseMove(inside, over) ==
    /\ drag.source # Undefined
    /\ ~inside => over = Undefined
    /\ LET newTarget == IF over # Undefined /\ bundles[over].editable
                        THEN over ELSE Undefined
       IN  drag' = [drag EXCEPT !.moved = TRUE, !.inside = inside,
                                !.over = over,
                                !.currTarget = IF inside THEN newTarget
                                               ELSE @]
    /\ ret' = Outcome("mousemove", Undefined, drag.source, FALSE, 0)
    /\ UNCHANGED <<maps, segs, invs, added, bundles>>

\* mouseup during a drag: nothing if the row never moved or the target is
\* the source's own element; otherwise the drop event on the target, if
\* there is one, then the row is removed and, for an editable source, the
\* feature deleted.  ret keeps the drag as it was at the release.
MouseUp ==
    /\ drag.source # Undefined
    /\ LET b == drag.source
           feature == drag.feature
           source == bundles[b]
           value == valueOf(maps[source.features], feature)
           target == drag.currTarget
       IN  IF ~drag.moved \/ target = b
           THEN UNCHANGED <<maps, bundles>>
           ELSE LET dropped ==
                        IF target # Undefined
                        THEN [maps EXCEPT ![bundles[target].features] =
                                featuredrop(@, feature, value)]
                        ELSE maps
                    shown ==
                        IF target # Undefined
                        THEN [bundles EXCEPT ![target].rows =
                                @ \cup {feature}]
                        ELSE bundles
                IN  /\ maps' = [dropped EXCEPT ![source.features] =
                                  dragOut(@, feature, source.editable)]
                    /\ bundles' = [shown EXCEPT ![b].rows =
                                     IF source.editable THEN @ \ {feature}
                                     ELSE @]
    /\ drag' = NoDrag
    /\ ret' = Outcome("mouseup", Undefined, drag, FALSE, 0)
    /\ UNCHANGED <<segs, invs, added>>

\* The page: a feature system, bundles built from literals, popups opened
\* from its segments, and the user's clicks and drags
NextBundle ==
    \/ \E obj \in BundleObjects : fromObjectOf(obj)
    \/ \E features \in BundleSpecs, editable \in BOOLEAN,
          inventory \in {Undefined, 1} :
          NewFeatureBundle(features, editable, inventory)
    \/ \E i \in 1..Len(invs), seg \in 1..Len(segs), classified \in BOOLEAN :
          ClickSegment(i, seg, classified)
    \/ \E b \in 1..Len(bundles), feature \in Feats : ClickValue(b, feature)
    \/ \E b \in 1..Len(bundles), feature \in Feats : MouseDown(b, feature)
    \/ \E inside \in BOOLEAN, over \in {Undefined} \cup 1..Len(bundles) :
          MouseMove(inside, over)
    \/ MouseUp

SpecBundle == Init /\ [][NextBundle]_vars


----------------------------------------------------------------------------
(* Properties of the FeatureBundle handlers *)

\* The editable bundles that were given an inventory: the ones whose value
\* cells have the click listener
Toggling == {b \in 1..Len(bundles) :
                bundles[b].editable /\ bundles[b].inventory # Undefined}

\* The entry after position p of a list, the first one after the last
NextEntry(vals, p) == IF p = Len(vals) THEN vals[1] ELSE vals[p + 1]

\* The feature specification after n clicks on the value of one feature
RECURSIVE Clicks(_, _, _, _)
Clicks(inv, spec, feature, n) ==
    IF n = 0 THEN spec
    ELSE Clicks(inv, toggle(inv, spec, feature).value, feature, n - 1)

\* C22, one click: a click on the value of a feature of an editable bundle
\* that has an inventory puts the entry of getValues(feature) after the
\* current one in its place, the first entry after the last, and leaves
\* the other features alone; if the current value is no entry of
\* getValues(feature), or the feature has none, the click raises and the
\* bundle is as it was.
ClickCycles ==
    \A b \in Toggling :
        LET bundle == bundles[b]
            m == bundle.features
            inv == invs[bundle.inventory]
        IN  \A feature \in bundle.rows :
                (ret'.op = "click"
                    /\ ret'.arg = [bundle |-> b, feature |-> feature])
                => LET vals == getValues(inv, feature)
                       old == valueOf(maps[m], feature)
                   IN  IF ~vals.thrown /\ old \in Range(vals.value)
                       THEN /\ ~ret'.thrown
                            /\ \E p \in 1..Len(vals.value) :
                                  /\ vals.value[p] = old
                                  /\ maps'[m][feature] =
                                        NextEntry(vals.value, p)
                            /\ maps'[m][feature] \in Range(vals.value)
                            /\ DOMAIN maps'[m] = DOMAIN maps[m]
                            /\ \A f \in DOMAIN maps[m] \ {feature} :
                                  maps'[m][f] = maps[m][f]
                       ELSE ret'.thrown /\ maps' = maps

\* C22, n clicks: in every state, as many clicks as getValues(feature) has
\* entries bring a value that is one of the entries back to itself.
ClicksComeBack ==
    \A b \in Toggling :
        LET bundle == bundles[b]
            inv == invs[bundle.inventory]
            spec == maps[bundle.features]
        IN  \A feature \in bundle.rows :
                LET vals == getValues(inv, feature)
                IN  (~vals.thrown
                        /\ valueOf(spec, feature) \in Range(vals.value))
                    => Clicks(inv, spec, feature, Len(vals.value)) = spec

\* C22: each click on a feature value of an editable FeatureBundle created
\* with an inventory replaces the value by the next entry of
\* inventory.getValues(feature), wrapping from the last entry to the first,
\* so the value stays an entry of getValues(feature) and n consecutive
\* clicks (n the number of values) restore the original value; if the
\* current value is not in getValues(feature) the click raises an error
\* and leaves the bundle unchanged.
C22_ClickCyclesValues == []ClicksComeBack /\ [][ClickCycles]_vars

\* A click has just wrapped from the last of two values to the first
C22_Witness ==
    /\ ret.op = "click"
    /\ ~ret.thrown
    /\ ret.arg.bundle \in Toggling
    /\ LET bundle == bundles[ret.arg.bundle]
           vals == getValues(invs[bundle.inventory], ret.arg.feature)
       IN  /\ ~vals.thrown
           /\ Len(vals.value) = 2
           /\ maps[bundle.features][ret.arg.feature] = vals.value[1]


\* The events of the page's user
UserEvents == {"createPopup", "click", "mousedown", "mousemove", "mouseup"}

\* The feature specifications that Segments refer to
Canonical == {segs[s].features : s \in 1..Len(segs)}

\* C23, the popup's bundle: a bundle over the feature specification of a
\* Segment is not editable.
CanonicalNotEditable ==
    \A b \in 1..Len(bundles) :
        bundles[b].features \in Canonical => ~bundles[b].editable

\* C23, the events: a click, mousedown, mousemove or mouseup changes no
\* Segment, no Segment's feature specification, no Inventory, and no
\* feature specification or row of a bundle that is not editable.
EventsSpareSegments ==
    ret'.op \in UserEvents
    => /\ segs' = segs
       /\ invs' = invs
       /\ \A m \in Canonical : maps'[m] = maps[m]
       /\ \A b \in 1..Len(bundles) :
             ~bundles[b].editable
             => /\ bundles'[b] = bundles[b]
                /\ maps'[bundles[b].features] = maps[bundles[b].features]

\* C23: no sequence of click, drag and drop events on elements created from
\* a Segment (its element, the popup and the feature bundle it opens)
\* changes any Segment's feature map or any Inventory index: the bundle
\* built over a Segment's feature map is non-editable, and the features of
\* a non-editable FeatureBundle are never modified by toggle, drag-out or
\* drop events.
C23_SegmentsNotEdited == []CanonicalNotEditable /\ [][EventsSpareSegments]_vars

\* A row of a Segment's popup bundle has just been dragged onto an editable
\* bundle and released there
C23_Witness ==
    /\ ret.op = "mouseup"
    /\ ret.arg.moved
    /\ bundles[ret.arg.source].features \in Canonical
    /\ ret.arg.currTarget # Undefined
    /\ ret.arg.feature \in DOMAIN maps[bundles[ret.arg.currTarget].features]


\* The bundle element under the pointer when the button is released, if it
\* accepts drops: the pointer is where the last mousemove left it
ReleasedOver ==
    IF drag.inside /\ drag.over # Undefined /\ bundles[drag.over].editable
    THEN drag.over ELSE Undefined

\* The bundle b has the same feature specification and rows after the step
SameBundle(b) ==
    /\ bundles'[b] = bundles[b]
    /\ maps'[bundles[b].features] = maps[bundles[b].features]

\* The mouseup that ends a drag moves or copies the dragged feature
DropMovesFeature ==
    ret'.op = "mouseup"
    => LET s == drag.source
           f == drag.feature
           v == valueOf(maps[bundles[s].features], f)
           B == ReleasedOver
           lost == f \notin DOMAIN maps'[bundles[s].features]
       IN  IF ~drag.moved \/ (drag.inside /\ drag.over = s)
           THEN \A b \in 1..Len(bundles) : SameBundle(b)
           ELSE /\ lost <=> bundles[s].editable
                /\ B # Undefined
                   => /\ f \in DOMAIN maps'[bundles[B].features]
                      /\ maps'[bundles[B].features][f] = v
                      /\ \A g \in DOMAIN maps[bundles[B].features] \ {f} :
                            maps'[bundles[B].features][g] =
                               maps[bundles[B].features][g]

\* C30: drag and drop between feature bundles moves or copies one feature:
\* after mousedown on a feature row, at least one mousemove, and mouseup
\* over an editable bundle B other than the source, B has the feature with
\* the dragged value (added or overwritten); the source loses the feature
\* iff it is editable, and also loses it when released over no droppable
\* bundle; releasing over the source itself, or mouseup with no mousemove,
\* changes no bundle.
C30_DragAndDrop == [][DropMovesFeature]_vars

====
